---- MODULE Spec2Model ----
(***************************************************************************)
(* QamBOT focus-session presence engine (src/Qambot.js) and the break       *)
(* monitor (live in src/unnamed/part_000, commented out in src/Qambot.js).  *)
(*                                                                         *)
(* The bot runs on one Node.js event loop.  A handler runs without         *)
(* interruption up to its next `await`; each action below is one such run: *)
(* from the arrival of an event, or from the completion of the gateway     *)
(* call a handler is suspended at, up to the next suspension or return.    *)
(* A gateway call (post, edit, fetch, move) may succeed or fail; the       *)
(* outcome is an input of the action that resumes the handler.  Timers     *)
(* (setTimeout) are pending from the call that sets them until they fire   *)
(* or are cleared; the delay is abstracted, so a pending timer may fire at *)
(* any later step.                                                         *)
(***************************************************************************)
EXTENDS Integers, FiniteSets, Sequences, Bags, TLC

VARIABLES
  inRoom,               \* live voice state: user -> voice channel, or Outside
  activeSessions,       \* Map vcId -> session (a session id, NoSess when absent)
  sessions,             \* the timerObj objects ever created, by session id
  nSessions,            \* number of timerObj / customId allocated so far
  recentFocusTriggers,  \* Set of vcId, each with a pending 5 s removal timer
  confirms,             \* bag of interaction handlers suspended at members.fetch
  DATA,                 \* DATA.users: the ledger
  saveScheduled,        \* the debounce flag of saveData
  saveTimers,           \* number of pending 2 s timers armed by saveData
  dirty,                \* DATA was mutated since the last write of data.json
  scenario,             \* the bounds of this run (fixed by Init)
  credited,             \* history: addXP calls made for (session, user)
  flagged,              \* history: addInfraction calls made by (pass, user)
  last,                 \* what the last handler run answered (observation only)
  now,                  \* Date.now(), in units of 15 minutes
  breakJoins,           \* DATA.users[id].breakJoins: the time stamps of the joins
  breakStayTimeouts,    \* Map `${userId}_${channelId}` -> timer id (NoTimer when absent)
  stayTimers,           \* the pending 15-minute reminder timers
  nStay,                \* number of reminder timers set so far
  reminding,            \* reminder callbacks suspended at members.fetch
  nagged,               \* history: nag messages sent to a user
  reminded,             \* history: reminder messages sent to a user
  recentHandledMessages, \* Set of message ids, emptied every 10 s by setInterval
  msgClock,             \* time of the message handler's runs, in units of 5 s
  nextPrune,            \* when the setInterval callback is due next
  handledAt,            \* history: when a message id last got past the dedup guard
  handled,              \* history: how often a message id got past the dedup guard
  today,                \* new Date().toISOString().slice(0, 10), as a day number
  lastCheckinDate,      \* DATA.users[id].lastCheckinDate (NoDay for null)
  streak,               \* DATA.users[id].streak
  lastDailyAt,          \* DATA.lastDailyAt (NoDay for null)
  running               \* the process has not exited

engineVars == <<activeSessions, sessions, nSessions, recentFocusTriggers,
                confirms, scenario, credited, flagged, last>>

breakVars == <<now, breakJoins, breakStayTimeouts, stayTimers, nStay, reminding,
               nagged, reminded>>

msgVars == <<recentHandledMessages, msgClock, nextPrune, handledAt, handled>>

checkinVars == <<today, lastCheckinDate, streak, lastDailyAt, running>>

vars == <<inRoom, DATA, saveScheduled, saveTimers, dirty, engineVars, breakVars, msgVars, checkinVars>>

----------------------------------------------------------------------------
(* Bounds and universes *)

\* A run is bounded by the users who take part in it (the others stay outside
\* and press nothing), the number of timerObj objects it allocates and the
\* number of interaction handlers suspended at the same time.
\*   crowd: two users around one session, confirmations may overlap
\*   race:  one user, sessions may overlap or follow each other
CrowdSessions == 1
CrowdConfirms == 2
RaceSessions == 2
RaceConfirms == 1
MaxSessions == IF RaceSessions > CrowdSessions THEN RaceSessions ELSE CrowdSessions

Rooms == {"vc1", "vc2"}
Users == {"A", "B"}
Scenarios ==
  { [users |-> Users, sessions |-> CrowdSessions, confirms |-> CrowdConfirms],
    [users |-> {"A"}, sessions |-> RaceSessions, confirms |-> RaceConfirms] }
Bots == {"bot"}

\* The voice channels of the break monitor's runs: two whose names hold a
\* break keyword and one whose name does not.
BreakChannels == {"brk1", "brk2"}
BreakPlaces == BreakChannels \cup {"vc1"}
BreakUsers == {"A"}
NoTimer == 0

\* Times are in units of 15 minutes: the reminder delay is 1 (15 * 60 * 1000 ms),
\* the rolling window of the nag is 4 (60 * 60 * 1000 ms); the nag threshold is 3.
StayDelay == 1
BreakWindow == 4
NagThreshold == 3

\* A run of the break monitor lasts MaxTime units and sets MaxStays timers.
MaxTime == 5
MaxStays == 4

\* The message ids of the dedup runs.  Times are in units of 5 s: the interval
\* of the clear is 2 (10 * 1000 ms).  A run lasts MaxClock units and lets a
\* message id past the guard MaxHandled times.
Messages == {"m1", "m2"}
PruneEvery == 2
MaxClock == 4
MaxHandled == 2
NoTime == -1

\* Days are numbered; a run of the check-ins goes up to day MaxDay.
NoDay == 0
MaxDay == 3
Outside == "outside"
NoSess == 0
SessionIds == 1..MaxSessions

\* A service account sits in vc1 for the whole run (m.user.bot is true for it).
BotsIn(r) == IF r = "vc1" THEN Bots ELSE {}

\* voiceChannel.members: everybody whose voice state points at the channel.
Occupants(r) == {u \in Users : inRoom[u] = r} \cup BotsIn(r)

\* .filter((m) => !m.user.bot)
NonBot(S) == S \ Bots

\* pc of a timerObj: where the code that owns it stands.
\*   send, send2        handleStartFocus suspended at the prompt post / the fallback post
\*   open               stored by activeSessions.set, deadline timer pending
\*   fetch .. edit      the deadline callback, suspended at a gateway call
\*   closed             no timer pending and no callback running
StartingPcs == {"send", "send2"}
PassPcs == {"fetch", "lookup", "move", "edit"}

FreeSession ==
  [pc |-> "free", room |-> "vc1", expected |-> {}, waiting |-> {}, present |-> {},
   prompt |-> "none", notifyChannelId |-> FALSE, canMove |-> FALSE,
   todo |-> {}, cur |-> "-", notices |-> 0]

\* What is left of a session once nothing refers to its timerObj any more: the
\* prompt message in the channel (with or without its button).
Closed(rec) ==
  [FreeSession EXCEPT !.pc = IF rec.pc = "edit" THEN "edit" ELSE "closed",
                      !.room = rec.room,
                      !.prompt = IF rec.pc = "edit" \/ rec.prompt = "button"
                                 THEN rec.prompt ELSE "none",
                      !.notices = IF rec.pc = "edit" THEN rec.notices ELSE 0]

\* A timerObj is still read by the code while the table holds it, while its
\* timer is pending or its callback is in the loop, while handleStartFocus has
\* yet to store it, or while a suspended interaction handler holds it.  After
\* that its fields are garbage (the callback suspended at the final edit only
\* holds sentMsg).
Referenced(s, ss, act, cf) ==
  \/ ss[s].pc \in StartingPcs \cup {"open", "fetch", "lookup", "move"}
  \/ \E r \in Rooms : act[r] = s
  \/ \E c \in BagToSet(cf) : c.sess = s

Collect(ss, act, cf) ==
  [s \in SessionIds |->
     IF ss[s].pc = "free" \/ Referenced(s, ss, act, cf) THEN ss[s] ELSE Closed(ss[s])]

----------------------------------------------------------------------------
(* User ledger: ensureUser / addXP / addInfraction / saveData *)

NoUser == [exists |-> FALSE, xp |-> 0, infractions |-> 0]

ensureUser(D, id) ==
  IF D[id].exists THEN D ELSE [D EXCEPT ![id].exists = TRUE]

\* (mutant) the amount is not used: one point per call.
addXP_Unit(D, userId, amount) ==
  [ensureUser(D, userId) EXCEPT ![userId].xp = @ + 1]

addXP(D, userId, amount) ==
  [ensureUser(D, userId) EXCEPT ![userId].xp = @ + amount]

addInfraction(D, userId) ==
  [ensureUser(D, userId) EXCEPT ![userId].infractions = @ + 1]

\* (mutant) saveData without its guard: every call arms a timer.
saveData_Unguarded ==
  /\ saveScheduled' = TRUE
  /\ saveTimers' = saveTimers + 1
  /\ dirty' = TRUE

\* saveData(), called after a mutation of DATA: if (saveScheduled) return;
\* saveScheduled = true; setTimeout(..., 2000).
saveData ==
  /\ saveScheduled' = TRUE
  /\ saveTimers' = IF saveScheduled THEN saveTimers ELSE saveTimers + 1
  /\ dirty' = TRUE

\* No ledger call in this step (so none is recorded in the history either).
LedgerUnchanged == UNCHANGED <<DATA, saveScheduled, saveTimers, dirty, credited, flagged>>

\* Every action of the engine leaves the bounds of the run alone, and the
\* state of the break monitor, of the message dedup and of the check-ins (no
\* handler of the engine reads or writes it).
Bounded == UNCHANGED <<scenario, breakVars, msgVars, checkinVars>>

----------------------------------------------------------------------------
\* The state of the bot once it is ready: nothing stored, everybody outside.
Ready ==
  /\ inRoom = [u \in Users |-> Outside]
  /\ activeSessions = [r \in Rooms |-> NoSess]
  /\ sessions = [s \in SessionIds |-> FreeSession]
  /\ nSessions = 0
  /\ recentFocusTriggers = {}
  /\ confirms = EmptyBag
  /\ DATA = [u \in Users |-> NoUser]
  /\ saveScheduled = FALSE
  /\ saveTimers = 0
  /\ dirty = FALSE
  /\ credited = [s \in SessionIds |-> [u \in Users |-> 0]]
  /\ flagged = [s \in SessionIds |-> [u \in Users |-> 0]]
  /\ last = "none"
  /\ now = 0
  /\ breakJoins = [u \in Users |-> <<>>]
  /\ breakStayTimeouts = [k \in Users \X BreakPlaces |-> NoTimer]
  /\ stayTimers = {}
  /\ nStay = 0
  /\ reminding = {}
  /\ nagged = [u \in Users |-> 0]
  /\ reminded = [u \in Users |-> 0]
  /\ recentHandledMessages = {}
  /\ msgClock = 0
  /\ nextPrune = PruneEvery
  /\ handledAt = [m \in Messages |-> NoTime]
  /\ handled = [m \in Messages |-> 0]
  /\ today = 1
  /\ lastCheckinDate = [u \in Users |-> NoDay]
  /\ streak = [u \in Users |-> 0]
  /\ lastDailyAt = NoDay
  /\ running = TRUE

Init ==
  /\ Ready
  /\ scenario \in Scenarios

----------------------------------------------------------------------------
(* Environment: users join, leave and move between voice channels *)

VoiceMove(u, r) ==
  /\ u \in scenario.users
  /\ inRoom[u] # r
  /\ inRoom' = [inRoom EXCEPT ![u] = r]
  /\ last' = "none"
  /\ UNCHANGED <<activeSessions, sessions, nSessions, recentFocusTriggers, confirms>>
  /\ LedgerUnchanged
  /\ Bounded

----------------------------------------------------------------------------
(* handleStartFocus, up to its first await (the prompt post) *)

\* (mutant) the dedup guard never hits.
DedupHit_Never(vcId) == FALSE

\* if (recentFocusTriggers.has(vcId)) return;
DedupHit(vcId) == vcId \in recentFocusTriggers

\* if (activeSessions.has(vcId)) return;
SessionExists(vcId) == activeSessions[vcId] # NoSess

\* (mutant) the members of the channel are taken unfiltered.
membersInVC_WithBots(vcId) == Occupants(vcId)

\* const membersInVC = voiceChannel.members.filter((m) => !m.user.bot);
membersInVC(vcId) == NonBot(Occupants(vcId))

\* timerObj as it will be stored: waiting = the snapshot, present = {}.
\* (expected keeps the snapshot; the code has no such field.)
NewSession(vcId, members) ==
  [FreeSession EXCEPT !.pc = "send", !.room = vcId, !.expected = members,
                      !.waiting = members, !.notifyChannelId = TRUE]

handleStartFocus(vcId, chanOk) ==
  IF DedupHit(vcId)
  THEN /\ last' = "dedup"
       /\ UNCHANGED <<recentFocusTriggers, sessions, nSessions>>
  ELSE /\ recentFocusTriggers' = recentFocusTriggers \cup {vcId}
       /\ IF SessionExists(vcId) \/ membersInVC(vcId) = {} \/ ~chanOk
          THEN /\ last' = "none"
               /\ UNCHANGED <<sessions, nSessions>>
          ELSE /\ nSessions < scenario.sessions
               /\ nSessions' = nSessions + 1
               /\ sessions' = [sessions EXCEPT
                                 ![nSessions + 1] = NewSession(vcId, membersInVC(vcId))]
               /\ last' = "none"

\* !startfocus, a channel mention, or the keyword scan: handleStartFocus directly.
TriggerDirect(vcId, chanOk) ==
  /\ handleStartFocus(vcId, chanOk)
  /\ UNCHANGED <<inRoom, activeSessions, confirms>>
  /\ LedgerUnchanged
  /\ Bounded

\* The upstream-bot and mapped-channel auto-start paths: guarded at the call site,
\* then recentFocusTriggers.add(vcId) again with a timer of the same expiry.
TriggerGuarded(vcId, chanOk) ==
  /\ IF ~SessionExists(vcId) /\ ~DedupHit(vcId)
     THEN handleStartFocus(vcId, chanOk)
     ELSE /\ last' = IF DedupHit(vcId) THEN "dedup" ELSE "none"
          /\ UNCHANGED <<recentFocusTriggers, sessions, nSessions>>
  /\ UNCHANGED <<inRoom, activeSessions, confirms>>
  /\ LedgerUnchanged
  /\ Bounded

\* setTimeout(() => recentFocusTriggers.delete(vcId), 5000) fires.
DedupExpire(vcId) ==
  /\ vcId \in recentFocusTriggers
  /\ recentFocusTriggers' = recentFocusTriggers \ {vcId}
  /\ last' = "none"
  /\ UNCHANGED <<inRoom, activeSessions, sessions, nSessions, confirms>>
  /\ LedgerUnchanged
  /\ Bounded

----------------------------------------------------------------------------
(* handleStartFocus, resumed after the prompt post *)

\* activeSessions.set(vcId, timerObj); timerObj.timeout = setTimeout(...)
CreateSession(s, kind) ==
  LET act == [activeSessions EXCEPT ![sessions[s].room] = s]
      ss == [sessions EXCEPT ![s].pc = "open", ![s].prompt = kind]
  IN /\ activeSessions' = act
     /\ sessions' = Collect(ss, act, confirms)

\* (mutant) the session is stored although no prompt could be posted.
AbandonStart_Stores(s) == CreateSession(s, "none")

\* The post failed for good: handleStartFocus returns, nothing was created.
AbandonStart(s) ==
  /\ sessions' = [sessions EXCEPT ![s] = Closed(sessions[s])]
  /\ UNCHANGED activeSessions

\* await notifyChannel.send({content, components: [row]}) returns or throws.
SendPrompt(s) ==
  /\ sessions[s].pc = "send"
  /\ \E ok \in BOOLEAN :
       IF ok THEN CreateSession(s, "button")
             ELSE /\ sessions' = [sessions EXCEPT ![s].pc = "send2"]
                  /\ UNCHANGED activeSessions
  /\ last' = "none"
  /\ UNCHANGED <<inRoom, nSessions, recentFocusTriggers, confirms>>
  /\ LedgerUnchanged
  /\ Bounded

\* the fallback post without the button returns or throws.
SendFallback(s) ==
  /\ sessions[s].pc = "send2"
  /\ \E ok \in BOOLEAN :
       IF ok THEN CreateSession(s, "plain") ELSE AbandonStart(s)
  /\ last' = "none"
  /\ UNCHANGED <<inRoom, nSessions, recentFocusTriggers, confirms>>
  /\ LedgerUnchanged
  /\ Bounded

----------------------------------------------------------------------------
(* The deadline callback: timerObj.timeout = setTimeout(async () => {...}) *)

\* (mutant) the whole table is emptied.
DeleteKey_All(vcId) == [r \in Rooms |-> NoSess]

\* activeSessions.delete(vcId): by key, whichever timerObj is stored there.
DeleteKey(vcId) == [activeSessions EXCEPT ![vcId] = NoSess]

\* (mutant) the set is taken from the channel as it is now, not from waiting.
toDisconnect_Occupants(rec) == NonBot(Occupants(rec.room)) \ rec.present

\* (mutant) the waiting set is not filtered by who is in the channel now.
toDisconnect_NoLiveCheck(rec) == rec.waiting \ rec.present

\* const toDisconnect = waiting ∩ currentIds, minus present
toDisconnect(rec) ==
  {id \in rec.waiting : id \in NonBot(Occupants(rec.room))} \ rec.present

\* const notifyIfCannotMove = !canMove && timerObj.notifyChannelId;
notifyIfCannotMove(rec) == ~rec.canMove /\ rec.notifyChannelId

\* The for loop goes on: suspend at guild.members.fetch(id) for the next id
\* (the order of the array is the voice channel's, which the model leaves
\* open), or leave the loop: activeSessions.delete(vcId) and suspend at
\* sentMsg.edit.
NextUser(s, rec) ==
  IF rec.todo = {}
  THEN LET act == DeleteKey(rec.room)
           ss == [sessions EXCEPT ![s] = [rec EXCEPT !.pc = "edit", !.cur = "-"]]
       IN /\ activeSessions' = act
          /\ sessions' = Collect(ss, act, confirms)
  ELSE /\ \E id \in rec.todo :
            sessions' = [sessions EXCEPT
                           ![s] = [rec EXCEPT !.pc = "lookup", !.cur = id,
                                              !.todo = rec.todo \ {id}]]
       /\ UNCHANGED activeSessions

\* (mutant) the callback returns without activeSessions.delete(vcId).
AbortPass_KeepsKey(s) ==
  /\ sessions' = [sessions EXCEPT ![s].pc = "closed"]
  /\ UNCHANGED activeSessions

\* An exception reached the outer catch, or the voice channel is gone:
\* activeSessions.delete(vcId) and return, the prompt is left as it is.
AbortPass(s) ==
  LET act == DeleteKey(sessions[s].room)
      ss == [sessions EXCEPT ![s].pc = "closed"]
  IN /\ activeSessions' = act
     /\ sessions' = Collect(ss, act, confirms)

\* The deadline timer fires.
TimerFire(s) ==
  /\ sessions[s].pc = "open"
  /\ \E freshVC \in BOOLEAN :
       IF freshVC
       THEN /\ sessions' = [sessions EXCEPT ![s].pc = "fetch"]
            /\ UNCHANGED activeSessions
       ELSE AbortPass(s)
  /\ last' = "none"
  /\ UNCHANGED <<inRoom, nSessions, recentFocusTriggers, confirms>>
  /\ LedgerUnchanged
  /\ Bounded

\* await guild.members.fetch() returns or throws; then the enforcement set and
\* canMove are computed and the loop starts.
FetchMembers(s) ==
  /\ sessions[s].pc = "fetch"
  /\ \E ok \in BOOLEAN, canMove \in BOOLEAN :
       IF ok
       THEN NextUser(s, [sessions[s] EXCEPT !.todo = toDisconnect(sessions[s]),
                                            !.canMove = canMove])
       ELSE AbortPass(s)
  /\ last' = "none"
  /\ UNCHANGED <<inRoom, nSessions, recentFocusTriggers, confirms>>
  /\ LedgerUnchanged
  /\ Bounded

\* The rest of one loop iteration once no gateway call is left whose outcome
\* the code reads: a notice may be posted (ch.send(...).catch(() => {}) settles
\* either way and the code reads no shared state while it waits, so the wait is
\* folded into this step), then addInfraction(id), then the loop goes on.
FlagAndNext(s, rec, posted) ==
  /\ DATA' = addInfraction(DATA, rec.cur)
  /\ saveData
  /\ flagged' = [flagged EXCEPT ![s][rec.cur] = @ + 1]
  /\ UNCHANGED credited
  /\ NextUser(s, [rec EXCEPT !.notices = IF posted THEN @ + 1 ELSE @])

\* (mutant) no try/catch around one iteration: the exception ends the pass.
InnerCatch_Aborts(s, rec) ==
  /\ AbortPass(s)
  /\ LedgerUnchanged

\* catch (err) { console.warn("Failed processing disconnect for", id, err); }
\* the iteration is over, the loop goes on.
InnerCatch(s, rec) ==
  /\ NextUser(s, rec)
  /\ LedgerUnchanged

\* await guild.members.fetch(id) returns or throws.  ch: the notify channel is
\* still in the cache and text based; sent: the post went through.
LookupMember(s) ==
  /\ sessions[s].pc = "lookup"
  /\ LET rec == sessions[s] IN
     \E ok \in BOOLEAN, ch \in BOOLEAN, sent \in BOOLEAN :
       IF ~ok
       THEN InnerCatch(s, rec)
       ELSE IF inRoom[rec.cur] = rec.room
       THEN IF rec.canMove
            THEN /\ sessions' = [sessions EXCEPT ![s].pc = "move"]
                 /\ UNCHANGED activeSessions
                 /\ LedgerUnchanged
            ELSE IF notifyIfCannotMove(rec)
                 THEN FlagAndNext(s, rec, ch /\ sent)
                 ELSE FlagAndNext(s, rec, FALSE)     \* member.send: a direct message
       ELSE \* the member is not in the channel any more: nothing to do
            /\ NextUser(s, rec)
            /\ LedgerUnchanged
  /\ last' = "none"
  /\ UNCHANGED <<inRoom, nSessions, recentFocusTriggers, confirms>>
  /\ Bounded

\* await member.voice.setChannel(null) returns or throws.
MoveMember(s) ==
  /\ sessions[s].pc = "move"
  /\ LET rec == sessions[s] IN
     \E ok \in BOOLEAN, ch \in BOOLEAN, sent \in BOOLEAN :
       IF ok
       THEN /\ inRoom' = [inRoom EXCEPT ![rec.cur] = Outside]
            /\ FlagAndNext(s, rec, FALSE)
       ELSE /\ UNCHANGED inRoom
            /\ FlagAndNext(s, rec, rec.notifyChannelId /\ ch /\ sent)
  /\ last' = "none"
  /\ UNCHANGED <<nSessions, recentFocusTriggers, confirms>>
  /\ Bounded

\* msg.edit({components: []}): the button goes if the message is still there.
EditedPrompt(prompt, ok) == IF ok /\ prompt = "button" THEN "plain" ELSE prompt

\* await sentMsg.edit({components: []}).catch(() => {}) is over.
EditPrompt(s) ==
  /\ sessions[s].pc = "edit"
  /\ \E ok \in BOOLEAN :
       sessions' = Collect([sessions EXCEPT ![s].pc = "closed",
                                            ![s].prompt = EditedPrompt(@, ok)],
                           activeSessions, confirms)
  /\ last' = "none"
  /\ UNCHANGED <<inRoom, activeSessions, nSessions, recentFocusTriggers, confirms>>
  /\ LedgerUnchanged
  /\ Bounded

----------------------------------------------------------------------------
(* !endfocus and messageDelete *)

\* if (session.timeout) clearTimeout(session.timeout): a pending timer is
\* cancelled; a timer that has fired is not affected.
ClearTimeout(rec) == IF rec.pc = "open" THEN [rec EXCEPT !.pc = "closed"] ELSE rec

\* (mutant) !endfocus enforces like a deadline: the users of the enforcement
\* set are flagged before the session goes.
EndFocus_Enforces(vcId, admin) ==
  /\ admin
  /\ activeSessions[vcId] # NoSess
  /\ LET s == activeSessions[vcId]
         act == DeleteKey(vcId)
         T == toDisconnect(sessions[s])
     IN /\ activeSessions' = act
        /\ sessions' = Collect([sessions EXCEPT ![s] = ClearTimeout(@)], act, confirms)
        /\ DATA' = [u \in Users |-> IF u \in T THEN addInfraction(DATA, u)[u] ELSE DATA[u]]
        /\ flagged' = [flagged EXCEPT ![s] = [u \in Users |-> IF u \in T THEN @[u] + 1 ELSE @[u]]]
        /\ saveData
        /\ last' = "ended"
  /\ UNCHANGED <<inRoom, nSessions, recentFocusTriggers, confirms, credited>>
  /\ Bounded

\* (mutant) the permission check lets everybody through.
LacksPermission_Never(admin) == FALSE

\* admin: the member holds ManageGuild or ManageChannels or is the server owner.
LacksPermission(admin) == ~admin

\* !endfocus <vcId> by a member with or without the admin permissions.  The
\* edit of the prompt that follows the removal is folded into the same step.
EndFocus(vcId, admin) ==
  /\ LET s == activeSessions[vcId] IN
     IF LacksPermission(admin)
     THEN /\ last' = "denied"       \* "You lack permission to run this command."
          /\ UNCHANGED <<activeSessions, sessions>>
     ELSE IF s = NoSess
          THEN /\ last' = "nosession"
               /\ UNCHANGED <<activeSessions, sessions>>
          ELSE \E ok \in BOOLEAN :
                 LET act == DeleteKey(vcId)
                     rec == ClearTimeout(sessions[s])
                     ss == [sessions EXCEPT
                              ![s] = [rec EXCEPT !.prompt = EditedPrompt(@, ok)]]
                 IN /\ activeSessions' = act
                    /\ sessions' = Collect(ss, act, confirms)
                    /\ last' = "ended"
  /\ UNCHANGED <<inRoom, nSessions, recentFocusTriggers, confirms>>
  /\ LedgerUnchanged
  /\ Bounded

\* The prompt message of session m is deleted in the channel.  The handler
\* looks for a stored session whose messageId is the deleted id.
MessageDelete(m) ==
  /\ sessions[m].prompt \in {"button", "plain"}
  /\ LET gone == [sessions EXCEPT ![m].prompt = "deleted"]
         vcId == sessions[m].room
     IN IF activeSessions[vcId] = m
        THEN LET act == DeleteKey(vcId)
                 ss == [gone EXCEPT ![m] = ClearTimeout(@)]
             IN /\ activeSessions' = act
                /\ sessions' = Collect(ss, act, confirms)
        ELSE /\ sessions' = gone
             /\ UNCHANGED activeSessions
  /\ last' = "none"
  /\ UNCHANGED <<inRoom, nSessions, recentFocusTriggers, confirms>>
  /\ LedgerUnchanged
  /\ Bounded

----------------------------------------------------------------------------
(* The interaction handler (the Present button) *)

\* customId = `present_${vcId}_${Date.now()}`: the button of session t carries
\* t's room and t's own time stamp.  parts[1] is the room.
TokenRoom(t) == sessions[t].room

\* const session = activeSessions.get(vcId);
LookupSession(t) == activeSessions[TokenRoom(t)]

\* User u presses the button on the prompt of session t.  The handler runs up
\* to await guild.members.fetch(memberId).
Press(u, t) ==
  /\ u \in scenario.users
  /\ sessions[t].prompt = "button"
  /\ IF LookupSession(t) = NoSess
     THEN /\ last' = "nosession"
          /\ UNCHANGED confirms
     ELSE /\ BagCardinality(confirms) < scenario.confirms
          /\ confirms' = confirms (+) SetToBag({[user |-> u, tok |-> t,
                                                 sess |-> LookupSession(t)]})
          /\ last' = "none"
  /\ UNCHANGED <<inRoom, activeSessions, sessions, nSessions, recentFocusTriggers>>
  /\ LedgerUnchanged
  /\ Bounded

\* (mutant) the voice state of the member is not checked.
NotInChannel_Never(u, vcId) == FALSE

\* if (!member.voice.channelId || member.voice.channelId !== vcId)
NotInChannel(u, vcId) == inRoom[u] # vcId

\* (mutant) a repeat is not recognised.
AlreadyPresent_Never(rec, u) == FALSE

\* (mutant) a user who is not waited for is turned down as well.
AlreadyPresent_OrUnexpected(rec, u) == u \in rec.present \/ u \notin rec.waiting

\* if (session.present.has(memberId))
AlreadyPresent(rec, u) == u \in rec.present

\* (mutant) the user is added to present and left in waiting.
MarkPresent_KeepsWaiting(rec, u) == [rec EXCEPT !.present = @ \cup {u}]

\* session.present.add(memberId); session.waiting.delete(memberId);
MarkPresent(rec, u) ==
  [rec EXCEPT !.present = @ \cup {u}, !.waiting = @ \ {u}]

\* (mutant) the user is marked before the checks are made.
RejectConfirm_AfterMark(c, cf, reply) ==
  /\ sessions' = Collect([sessions EXCEPT ![c.sess] = MarkPresent(@, c.user)],
                         activeSessions, cf)
  /\ last' = reply
  /\ LedgerUnchanged

\* return interaction.reply({content: ..., ephemeral: true}): the handler is
\* over, the timerObj it holds is let go.
RejectConfirm(c, cf, reply) ==
  /\ sessions' = Collect(sessions, activeSessions, cf)
  /\ last' = reply
  /\ LedgerUnchanged

\* interaction.update({content, components: [row]}) puts a button (back) on
\* the message the interaction came from.
UpdatedPrompt(prompt, ok) == IF ok /\ prompt = "plain" THEN "button" ELSE prompt

\* The member fetch of a suspended handler returns or throws, and the handler
\* runs to its end (the update of the message is folded into the same step).
Confirm(c) ==
  /\ c \in BagToSet(confirms)
  /\ LET cf == confirms (-) SetToBag({c})
         rec == sessions[c.sess]
     IN /\ confirms' = cf
        /\ \E ok \in BOOLEAN, upd \in BOOLEAN :
             IF ~ok
             THEN /\ sessions' = Collect(sessions, activeSessions, cf)
                  /\ last' = "none"
                  /\ LedgerUnchanged
             ELSE IF NotInChannel(c.user, rec.room)
             THEN RejectConfirm(c, cf, "absent")
             ELSE IF AlreadyPresent(rec, c.user)
             THEN RejectConfirm(c, cf, "already")
             ELSE /\ sessions' =
                       Collect([sessions EXCEPT
                                  ![c.sess] = MarkPresent(rec, c.user),
                                  ![c.tok].prompt = UpdatedPrompt(@, upd)],
                               activeSessions, cf)
                  /\ DATA' = addXP(DATA, c.user, 10)
                  /\ saveData
                  /\ credited' = [credited EXCEPT ![c.sess][c.user] = @ + 1]
                  /\ UNCHANGED flagged
                  /\ last' = "none"
  /\ UNCHANGED <<inRoom, activeSessions, nSessions, recentFocusTriggers>>
  /\ Bounded

----------------------------------------------------------------------------
(* The engine in one voice channel *)

OneRoom == {"vc1"}
ConfirmRecords == [user : Users, tok : SessionIds, sess : SessionIds]

Next ==
  \/ \E u \in Users, r \in OneRoom \cup {Outside} : VoiceMove(u, r)
  \/ \E r \in OneRoom, chanOk \in BOOLEAN : TriggerDirect(r, chanOk)
  \/ \E r \in OneRoom, chanOk \in BOOLEAN : TriggerGuarded(r, chanOk)
  \/ \E r \in OneRoom : DedupExpire(r)
  \/ \E s \in SessionIds : SendPrompt(s)
  \/ \E s \in SessionIds : SendFallback(s)
  \/ \E s \in SessionIds : TimerFire(s)
  \/ \E s \in SessionIds : FetchMembers(s)
  \/ \E s \in SessionIds : LookupMember(s)
  \/ \E s \in SessionIds : MoveMember(s)
  \/ \E s \in SessionIds : EditPrompt(s)
  \/ \E r \in OneRoom, admin \in BOOLEAN : EndFocus(r, admin)
  \/ \E m \in SessionIds : MessageDelete(m)
  \/ \E u \in Users, t \in SessionIds : Press(u, t)
  \/ \E c \in ConfirmRecords : Confirm(c)

Spec == Init /\ [][Next]_vars

----------------------------------------------------------------------------
(* The break monitor: voiceStateUpdate, recordBreakJoin and the reminder *)

\* The engine is not involved in a step of the break monitor.
EngineIdle == UNCHANGED <<engineVars, msgVars, checkinVars>>

\* isBreakChannel(channel): the lower-cased name includes a break keyword.
isBreakChannel(r) == r \in BreakChannels

\* u.breakJoins.filter((t) => now - t < 60 * 60 * 1000)
RecentJoins(joins, at) == SelectSeq(joins, LAMBDA j : at - j < BreakWindow)

\* recordBreakJoin(userId) up to the test of the threshold: the joins kept and
\* the new one.
JoinsAfter(u) == Append(RecentJoins(breakJoins[u], now), now)

\* if (recent.length >= 3): the nag is sent.
NagDue(u) == Len(RecentJoins(JoinsAfter(u), now)) >= NagThreshold

\* recordBreakJoin(userId).  sent: the member fetch of the async block found
\* the user, so mem.send is called (the block reads no state of the bot, its
\* wait is folded into this step).
recordBreakJoin(u, sent) ==
  /\ DATA' = ensureUser(DATA, u)
  /\ breakJoins' = [breakJoins EXCEPT ![u] = JoinsAfter(u)]
  /\ saveData
  /\ nagged' = [nagged EXCEPT ![u] = IF NagDue(u) /\ sent THEN @ + 1 ELSE @]

\* The leave half of the handler: if the channel left is a break channel and
\* breakStayTimeouts holds a timer for the key, clearTimeout and delete.
AfterLeave(u, old) ==
  IF old # Outside /\ isBreakChannel(old) /\ breakStayTimeouts[<<u, old>>] # NoTimer
  THEN [table |-> [breakStayTimeouts EXCEPT ![<<u, old>>] = NoTimer],
        timers |-> {tm \in stayTimers : tm.id # breakStayTimeouts[<<u, old>>]}]
  ELSE [table |-> breakStayTimeouts, timers |-> stayTimers]

\* client.on("voiceStateUpdate"): user u goes from its channel to new (a
\* channel or Outside).
VoiceStateUpdate(u, new) ==
  /\ inRoom[u] # new
  /\ inRoom' = [inRoom EXCEPT ![u] = new]
  /\ LET left == AfterLeave(u, inRoom[u]) IN
     IF new # Outside /\ isBreakChannel(new)
     THEN /\ nStay < MaxStays
          /\ \E sent \in BOOLEAN : recordBreakJoin(u, sent)
          /\ nStay' = nStay + 1
          /\ stayTimers' = left.timers \cup
               {[id |-> nStay + 1, user |-> u, room |-> new, due |-> now + StayDelay]}
          /\ breakStayTimeouts' = [left.table EXCEPT ![<<u, new>>] = nStay + 1]
     ELSE /\ stayTimers' = left.timers
          /\ breakStayTimeouts' = left.table
          /\ UNCHANGED <<DATA, saveScheduled, saveTimers, dirty, breakJoins, nagged, nStay>>
  /\ UNCHANGED <<now, reminding, reminded>>
  /\ EngineIdle

\* Time passes.
Tick ==
  /\ now < MaxTime
  /\ now' = now + 1
  /\ UNCHANGED <<inRoom, DATA, saveScheduled, saveTimers, dirty, breakJoins, breakStayTimeouts,
                 stayTimers, nStay, reminding, nagged, reminded>>
  /\ EngineIdle

\* A reminder timer fires (not before it is due): its callback suspends at
\* await newState.guild.members.fetch(member.id).
StayFire(tm) ==
  /\ tm \in stayTimers
  /\ now >= tm.due
  /\ stayTimers' = stayTimers \ {tm}
  /\ reminding' = reminding \cup {tm}
  /\ UNCHANGED <<inRoom, DATA, saveScheduled, saveTimers, dirty, now, breakJoins,
                 breakStayTimeouts, nStay, nagged, reminded>>
  /\ EngineIdle

\* (mutant) the callback does not look at the voice state again.
StillThere_Unchecked(u, r) == TRUE

\* if (freshMem.voice && freshMem.voice.channelId === newChan.id)
StillThere(u, r) == inRoom[u] = r

\* The member fetch of a reminder callback returns or throws; the reminder is
\* sent if the user is still in the channel.
StayResume(c) ==
  /\ c \in reminding
  /\ reminding' = reminding \ {c}
  /\ \E ok \in BOOLEAN :
       reminded' = [reminded EXCEPT
                      ![c.user] = IF ok /\ StillThere(c.user, c.room) THEN @ + 1 ELSE @]
  /\ UNCHANGED <<inRoom, DATA, saveScheduled, saveTimers, dirty, now, breakJoins,
                 breakStayTimeouts, stayTimers, nStay, nagged>>
  /\ EngineIdle

StayTimers == [id : 1..MaxStays, user : BreakUsers, room : BreakChannels,
               due : 0..(MaxTime + StayDelay)]

BreakNext ==
  \/ \E u \in BreakUsers, r \in BreakPlaces \cup {Outside} : VoiceStateUpdate(u, r)
  \/ Tick
  \/ \E tm \in StayTimers : StayFire(tm)
  \/ \E c \in StayTimers : StayResume(c)

\* The break monitor on its own (one scenario of the engine, which stays idle).
BreakInit == Init /\ scenario.sessions = RaceSessions

BreakSpec == BreakInit /\ [][BreakNext]_vars

----------------------------------------------------------------------------
(* Properties *)

\* The deadline timer of session s is pending.
TimerPending(s) == sessions[s].pc = "open"

\* The deadline callback of session s has started and is not past its loop.
PassRunning(s) == sessions[s].pc \in {"fetch", "lookup", "move"}

\* Created and not yet closed.
Live(s) == TimerPending(s) \/ PassRunning(s)

\* The fields of the timerObj of s have not been dropped as garbage.
Kept(s) == sessions[s].pc \notin {"free", "closed"} /\ sessions[s] # Closed(sessions[s])

\* The interaction handler c resumes in this step and records the confirmation.
Records(c) ==
  /\ c \in BagToSet(confirms)
  /\ confirms' = confirms (-) SetToBag({c})
  /\ credited'[c.sess][c.user] = credited[c.sess][c.user] + 1

\* C1: for every room, at most one session is live (deadline timer pending or
\* enforcement pass running) at any instant.
C1_AtMostOneLive ==
  \A r \in Rooms :
    Cardinality({s \in SessionIds : Live(s) /\ sessions[s].room = r}) <= 1

\* C2: a confirmation is recorded into session S only if the button that was
\* pressed carries S's own token; a press on the button of another (closed)
\* session of the same room is rejected.
C2_StaleTokenRejected ==
  [][\A c \in ConfirmRecords : Records(c) => c.tok = c.sess]_vars

\* C3: every pending deadline timer belongs to the session that activeSessions
\* stores for its room (no timer is leaked by a session that left the table).
C3_TimerBelongsToStored ==
  \A s \in SessionIds :
    TimerPending(s) => activeSessions[sessions[s].room] = s

\* The deadline callback of s computes its enforcement set in this step.
Selecting(s) ==
  sessions[s].pc = "fetch" /\ sessions'[s].pc \in {"lookup", "edit"}

\* The enforcement set as the loop holds it: the user in hand and those to come.
Selected(rec) == IF rec.pc = "lookup" THEN rec.todo \cup {rec.cur} ELSE {}

\* C4: the set the deadline callback selects for enforcement is exactly
\* (expected /\ users in the room at that moment) minus confirmed, expected
\* being the non-bot occupants snapshot taken when the session was started.
C4_EnforcementSet ==
  [][\A s \in SessionIds :
       Selecting(s) =>
         Selected(sessions'[s]) =
           (sessions[s].expected \cap {u \in Users : inRoom[u] = sessions[s].room})
             \ sessions[s].present]_vars

\* The pass is at its first user A, B was expected too and has confirmed.
C4_Witness ==
  \E s \in SessionIds :
    /\ sessions[s].pc = "lookup"
    /\ sessions[s].expected = {"A", "B"}
    /\ sessions[s].present = {"B"}
    /\ Selected(sessions[s]) = {"A"}
    /\ inRoom["B"] = sessions[s].room

\* The number of sessions that credited u.
SumCredited(u) ==
  LET f[n \in 0..MaxSessions] == IF n = 0 THEN 0 ELSE f[n - 1] + credited[n][u]
  IN f[MaxSessions]

C6_ConfirmedWereLive ==
  [][\A c \in ConfirmRecords : Records(c) => inRoom[c.user] = sessions[c.sess].room]_vars

\* One user was recorded and is in the room; the other was just rejected as absent.
C6_Witness ==
  /\ last = "absent"
  /\ \E s \in SessionIds, u \in Users :
       /\ u \in sessions[s].present
       /\ inRoom[u] = sessions[s].room
       /\ \E v \in Users \ {u} : inRoom[v] # sessions[s].room /\ v \notin sessions[s].present

\* C7: once the prompt of a session whose timer has not fired is deleted, the
\* timer is cancelled: no session with a deleted prompt has a pending timer.
C7_DeletedPromptCancels ==
  \A s \in SessionIds : sessions[s].prompt = "deleted" => ~TimerPending(s)

\* A trigger for room r gets as far as the prompt post in this step.
StartsFor(r) ==
  \E s \in SessionIds :
    sessions[s].pc = "free" /\ sessions'[s].pc = "send" /\ sessions'[s].room = r

\* C8: while the dedup entry of a room is pending (the 5 s after a trigger that
\* passed the guard), no trigger for that room, by whichever path, gets past
\* the guard: no second prompt post is started for the room.
C8_TriggerDedup ==
  [][\A r \in Rooms : r \in recentFocusTriggers => ~StartsFor(r)]_vars

\* A second trigger was just dropped while the first one's session is open and
\* its dedup entry is still pending.
C8_Witness ==
  /\ last = "dedup"
  /\ \E s \in SessionIds :
       /\ TimerPending(s)
       /\ activeSessions[sessions[s].room] = s
       /\ sessions[s].room \in recentFocusTriggers

\* C9: one enforcement pass posts at most one notification, however many users
\* it enforces.
C9_OneAggregateNotice ==
  \A s \in SessionIds : sessions[s].notices <= 1

\* The pass of s is done, in this step, with the user it has in hand.
DealtWith(s) ==
  /\ sessions[s].pc = "lookup"
  /\ sessions'[s].pc # "lookup" \/ sessions'[s].cur # sessions[s].cur

\* C10: without the move capability, every selected user who is in the room
\* when the pass deals with them is flagged by the pass.
C10_FlaggedWithoutCapability ==
  [][\A s \in SessionIds :
       (DealtWith(s) /\ ~sessions[s].canMove
          /\ inRoom[sessions[s].cur] = sessions[s].room)
       => flagged'[s][sessions[s].cur] = flagged[s][sessions[s].cur] + 1]_vars

\* The pass of s leaves, in this step, the user it has in hand: the iteration
\* for that user is over (going from the lookup to the move is not).
LeavesUser(s) ==
  /\ sessions[s].pc \in {"lookup", "move"}
  /\ sessions'[s].pc \notin {"lookup", "move"} \/ sessions'[s].cur # sessions[s].cur

\* C11: every user of the enforcement set is flagged exactly once by the pass
\* (one addInfraction call in the iteration made for that user), whatever the
\* outcome of the lookup, the removal or the notification.
C11_EveryEnforcedFlagged ==
  [][\A s \in SessionIds :
       LeavesUser(s) =>
         flagged'[s][sessions[s].cur] = flagged[s][sessions[s].cur] + 1]_vars

PassStep(s) == FetchMembers(s) \/ LookupMember(s) \/ MoveMember(s) \/ EditPrompt(s)

\* The engine without the Present button: nobody confirms.
PassNext ==
  \/ \E u \in Users, r \in OneRoom \cup {Outside} : VoiceMove(u, r)
  \/ \E r \in OneRoom, chanOk \in BOOLEAN : TriggerDirect(r, chanOk)
  \/ \E r \in OneRoom, chanOk \in BOOLEAN : TriggerGuarded(r, chanOk)
  \/ \E r \in OneRoom : DedupExpire(r)
  \/ \E s \in SessionIds : SendPrompt(s)
  \/ \E s \in SessionIds : SendFallback(s)
  \/ \E s \in SessionIds : TimerFire(s)
  \/ \E s \in SessionIds : FetchMembers(s)
  \/ \E s \in SessionIds : LookupMember(s)
  \/ \E s \in SessionIds : MoveMember(s)
  \/ \E s \in SessionIds : EditPrompt(s)
  \/ \E r \in OneRoom, admin \in BOOLEAN : EndFocus(r, admin)
  \/ \E m \in SessionIds : MessageDelete(m)

\* That engine under the assumption that every gateway call a deadline callback
\* waits for eventually returns or fails.
FairSpec ==
  /\ Init
  /\ [][PassNext]_vars
  /\ \A s \in SessionIds : WF_vars(PassStep(s))

\* C13: once the deadline timer of a session has fired, the callback eventually
\* ends and the session is not in activeSessions, whichever gateway calls fail.
C13_EventuallyClosed ==
  \A s \in SessionIds :
    (sessions[s].pc = "fetch") ~>
      (sessions[s].pc = "closed" /\ activeSessions[sessions[s].room] # s)

\* A pass that met a failed removal (a notice was posted for it) has ended and
\* its session is out of the table.
C13_Witness ==
  \E s \in SessionIds, u \in Users :
    /\ sessions[s].pc = "edit"
    /\ sessions[s].notices = 1
    /\ flagged[s][u] = 1
    /\ inRoom[u] = sessions[s].room
    /\ activeSessions[sessions[s].room] # s

\* C14: !endfocus on an open session enforces as a deadline does: the users of
\* (expected /\ still in the room) minus confirmed are flagged by the time the
\* session is closed by the command.
C14_ForceEndEnforces ==
  [][\A r \in Rooms :
       (/\ activeSessions[r] # NoSess
        /\ activeSessions'[r] = NoSess
        /\ last' = "ended"
        /\ TimerPending(activeSessions[r]))
       => \A u \in toDisconnect(sessions[activeSessions[r]]) :
            flagged'[activeSessions[r]][u] = flagged[activeSessions[r]][u] + 1]_vars

\* The bot takes u out of a voice channel in this step (a user who moves on
\* their own changes nothing else).
Removes(u) ==
  /\ inRoom'[u] # inRoom[u]
  /\ ~UNCHANGED <<activeSessions, sessions, DATA, flagged>>

\* C15: enforcement happens only inside a pass started by a deadline timer:
\* a pass starts from a pending timer only; an infraction is recorded, a user
\* removed or a notice posted only by a running pass, for the user it has in
\* hand.  !endfocus and messageDelete start no pass, so they enforce nothing.
C15_DeadlineSoleTrigger ==
  [][/\ \A s \in SessionIds :
          /\ (PassRunning(s)' /\ ~PassRunning(s)) => TimerPending(s)
          /\ sessions'[s].notices > sessions[s].notices => PassRunning(s)
     /\ \A u \in Users :
          /\ (\/ DATA'[u].infractions # DATA[u].infractions
              \/ \E s \in SessionIds : flagged'[s][u] # flagged[s][u]
              \/ Removes(u))
             => \E s \in SessionIds :
                  /\ PassRunning(s)
                  /\ sessions[s].cur = u
                  /\ flagged'[s][u] = flagged[s][u] + 1
                  /\ DATA'[u].infractions = DATA[u].infractions + 1]_vars

\* A session was just ended by !endfocus with an unconfirmed user in its room,
\* and nobody has been flagged.
C15_Witness ==
  /\ last = "ended"
  /\ \E s \in SessionIds, u \in Users :
       /\ sessions[s].pc = "closed"
       /\ inRoom[u] = sessions[s].room
       /\ credited[s][u] = 0
       /\ DATA[u].infractions = 0
       /\ \A v \in Users : flagged[s][v] = 0

\* C16: for every room, at most one deadline callback is in progress (started
\* and not yet past its cleanup, suspended at a gateway call included).
C16_OnePassPerRoom ==
  \A r \in Rooms :
    Cardinality({s \in SessionIds : sessions[s].pc \in PassPcs /\ sessions[s].room = r}) <= 1

\* C17: a deadline callback acts only for a session that is still stored: an
\* infraction is recorded or a notice posted on behalf of session s only while
\* activeSessions holds s for its room.
C17_ActsOnlyWhileStored ==
  [][\A s \in SessionIds :
       (\/ sessions'[s].notices > sessions[s].notices
        \/ \E u \in Users : flagged'[s][u] # flagged[s][u])
       => activeSessions[sessions[s].room] = s]_vars

\* recordBreakJoin(u) runs in this step.
JoinStep(u) == breakJoins'[u] # breakJoins[u]

\* C18: a join into a break channel that is the 4th or a later one within the
\* rolling 60 minutes (3 joins of the window were there before it) sends no
\* further nag.
C18_OneNagPerWindow ==
  [][\A u \in Users :
       (JoinStep(u) /\ Len(RecentJoins(breakJoins[u], now)) >= NagThreshold)
       => nagged'[u] = nagged[u]]_vars

\* The reminder timers pending for (u, r).
PendingFor(u, r) == {tm \in stayTimers : tm.user = u /\ tm.room = r}

\* C19: a reminder is sent for a stay only if the user was in that break
\* channel for the whole delay and still is: a pending timer's user is in the
\* timer's channel; leaving the channel cancels the timer and removes the
\* watch; a timer fires no earlier than due; and the callback sends only if
\* the user is in the channel when it looks again.
C19_ReminderOnlyAfterFullStay ==
  [][/\ \A tm \in stayTimers' : inRoom'[tm.user] = tm.room
     /\ \A u \in Users, r \in BreakChannels :
          (inRoom[u] = r /\ inRoom'[u] # r) =>
            /\ breakStayTimeouts'[<<u, r>>] = NoTimer
            /\ \A tm \in stayTimers' : ~(tm.user = u /\ tm.room = r)
     /\ \A tm \in stayTimers :
          tm \in reminding' => (now >= tm.due /\ inRoom[tm.user] = tm.room)
     /\ \A u \in Users :
          reminded'[u] > reminded[u] =>
            \E c \in reminding \ reminding' : c.user = u /\ inRoom[u] = c.room]_vars

\* A reminder was sent to A, who is in a break channel, after an earlier stay
\* that A had cut short (its timer was cancelled).
C19_Witness ==
  /\ reminded["A"] = 1
  /\ inRoom["A"] \in BreakChannels
  /\ nStay = 2
  /\ stayTimers = {}
  /\ reminding = {}

\* C20: breakStayTimeouts holds an entry for (user, channel) exactly while a
\* reminder timer for that pair is pending, and at most one is pending.
C20_WatchIffPending ==
  \A u \in Users, r \in BreakPlaces :
    /\ breakStayTimeouts[<<u, r>>] # NoTimer <=> PendingFor(u, r) # {}
    /\ Cardinality(PendingFor(u, r)) <= 1

\* C21: a user who is not in the expected snapshot of a session (who joined
\* the room after the session was opened) is never taken in hand, removed or
\* flagged by the pass of that session.
C21_LateJoinerUntouched ==
  [][\A u \in Users :
       /\ \A s \in SessionIds :
            u \notin sessions[s].expected =>
              /\ flagged'[s][u] = flagged[s][u]
              /\ ~(sessions'[s].pc \in {"lookup", "move"} /\ sessions'[s].cur = u)
       /\ Removes(u) =>
            \E s \in SessionIds :
              /\ u \in sessions[s].expected
              /\ sessions[s].pc = "move"
              /\ sessions[s].cur = u]_vars

\* The pass has computed its set: A only, while B, who joined after the
\* snapshot and has not confirmed, is in the room.
C21_Witness ==
  \E s \in SessionIds :
    /\ sessions[s].pc = "lookup"
    /\ sessions[s].expected = {"A"}
    /\ Selected(sessions[s]) = {"A"}
    /\ inRoom["B"] = sessions[s].room
    /\ "B" \notin sessions[s].present
    /\ flagged[s]["B"] = 0

\* C22: the expected set of a session is a snapshot that never grows: it is
\* taken when the session is started, holds exactly the non-bot users who are
\* in the room at that moment, and no later step (a confirmation, a user
\* joining the room, a trigger, the pass) adds a user to it or to waiting.
C22_SnapshotNeverGrows ==
  [][\A s \in SessionIds :
       IF sessions[s].pc = "free"
       THEN sessions'[s].pc # "free" =>
              /\ sessions'[s].expected =
                   {u \in Users : inRoom[u] = sessions'[s].room}
              /\ sessions'[s].waiting = sessions'[s].expected
       ELSE /\ sessions'[s].expected \in {sessions[s].expected, {}}
            /\ sessions'[s].waiting \subseteq sessions[s].waiting
            /\ sessions'[s].waiting \subseteq sessions'[s].expected]_vars

\* B joined the room after the snapshot {A} was taken and has confirmed: B is
\* in present, the snapshot is still {A} and A is still waited for.
C22_Witness ==
  \E s \in SessionIds :
    /\ sessions[s].pc = "open"
    /\ sessions[s].expected = {"A"}
    /\ sessions[s].waiting = {"A"}
    /\ sessions[s].present = {"B"}
    /\ inRoom["B"] = sessions[s].room

\* The replies that turn a press of the button down.
Rejections == {"nosession", "absent", "already"}

\* Nothing of the sessions, the table or the ledger changes in this step (the
\* fields of a timerObj that nothing refers to any more may be dropped).
Untouched ==
  /\ UNCHANGED <<activeSessions, DATA, saveScheduled, saveTimers, dirty, credited, flagged, inRoom>>
  /\ \A s \in SessionIds : sessions'[s] \in {sessions[s], Closed(sessions[s])}
  /\ \A s \in SessionIds :
       Kept(s)' => /\ sessions'[s].present = sessions[s].present
                   /\ sessions'[s].waiting = sessions[s].waiting

\* C23: a rejected confirmation (no session stored for the room, user not in
\* the room, user already confirmed) is answered with the rejection reply and
\* changes neither the confirmed and waiting sets of any session nor the ledger.
C23_RejectionChangesNothing ==
  [][/\ last' \in Rejections => Untouched
     /\ \A c \in BagToSet(confirms) :
          (/\ confirms' = confirms (-) SetToBag({c})
           /\ \/ NotInChannel(c.user, sessions[c.sess].room)
              \/ AlreadyPresent(sessions[c.sess], c.user))
          => /\ Untouched
             /\ last' \in {"absent", "already", "none"}]_vars

\* A pressed the button and left the room before the handler resumed: the
\* press was turned down, both users are still waited for, nobody has xp.
C23_Witness ==
  /\ last = "absent"
  /\ \E s \in SessionIds :
       /\ sessions[s].pc = "open"
       /\ sessions[s].waiting = {"A", "B"}
       /\ sessions[s].present = {}
  /\ \A u \in Users : DATA[u].xp = 0 /\ ~DATA[u].exists

\* handleStartFocus gets past its dedup guard for room r in this step (a
\* trigger by any path: the guard adds the room to recentFocusTriggers).
Triggered(r) ==
  r \notin recentFocusTriggers /\ r \in recentFocusTriggers'

\* Room r has a live session: a deadline timer pending or a pass running.
HasLive(r) == \E s \in SessionIds : Live(s) /\ sessions[s].room = r

\* C24: handleStartFocus for a room that has a live session, or that has no
\* non-bot occupant, is a no-op: no prompt post is started, no timerObj is
\* created and the table and the sessions are left as they are.
C24_NoOpWhenLiveOrEmpty ==
  [][\A r \in Rooms :
       (Triggered(r) /\ (HasLive(r) \/ membersInVC(r) = {}))
       => /\ ~StartsFor(r)
          /\ UNCHANGED <<activeSessions, sessions, nSessions>>]_vars

----------------------------------------------------------------------------
(* The engine in two voice channels *)

\* One user who goes from room to room, two timerObj in all, one interaction
\* handler suspended at a time.
TwoRoomScenario == [users |-> {"A"}, sessions |-> RaceSessions, confirms |-> RaceConfirms]

TwoRoomInit ==
  /\ Ready
  /\ scenario = TwoRoomScenario

\* These runs start one session per room (no timerObj was made for r so far),
\* by the command or a mention, and are over before the removal timers of the
\* dedup entries fire.
Unstarted(r) == \A s \in SessionIds : sessions[s].pc = "free" \/ sessions[s].room # r

TwoRoomNext ==
  \/ \E u \in Users, r \in Rooms \cup {Outside} : VoiceMove(u, r)
  \/ \E r \in Rooms, chanOk \in BOOLEAN : Unstarted(r) /\ TriggerDirect(r, chanOk)
  \/ \E s \in SessionIds : SendPrompt(s)
  \/ \E s \in SessionIds : SendFallback(s)
  \/ \E s \in SessionIds : TimerFire(s)
  \/ \E s \in SessionIds : FetchMembers(s)
  \/ \E s \in SessionIds : LookupMember(s)
  \/ \E s \in SessionIds : MoveMember(s)
  \/ \E s \in SessionIds : EditPrompt(s)
  \/ \E r \in Rooms, admin \in BOOLEAN : EndFocus(r, admin)
  \/ \E m \in SessionIds : MessageDelete(m)
  \/ \E u \in Users, t \in SessionIds : Press(u, t)
  \/ \E c \in ConfirmRecords : Confirm(c)

TwoRoomSpec == TwoRoomInit /\ [][TwoRoomNext]_vars

\* The session of room r is touched in this step: the entry of r in the table
\* changes, or a timerObj of r that is still in use (before or after) changes.
Touches(r) ==
  \/ activeSessions'[r] # activeSessions[r]
  \/ \E s \in SessionIds :
       /\ sessions'[s].room = r
       /\ sessions'[s] # sessions[s]
       /\ Kept(s) \/ Kept(s)'

\* C25: the sessions of different rooms are independent: no step (a start, a
\* confirmation, !endfocus, the deletion of a prompt, a step of a pass)
\* touches the table entry or the timerObj of more than one room.
C25_RoomsIndependent ==
  [][\A a \in Rooms, b \in Rooms : (a # b /\ Touches(a)) => ~Touches(b)]_vars

\* The session of vc1 was just ended by !endfocus while the session of vc2 is
\* stored with its timer pending and its snapshot intact.
C25_Witness ==
  /\ last = "ended"
  /\ activeSessions["vc1"] = NoSess
  /\ \E s \in SessionIds :
       /\ activeSessions["vc2"] = s
       /\ TimerPending(s)
       /\ sessions[s].waiting = {"A"}
       /\ sessions[s].prompt = "button"
  /\ \E s \in SessionIds : sessions[s].room = "vc1" /\ sessions[s].pc = "closed"

----------------------------------------------------------------------------
(* The message dedup: recentHandledMessages and its setInterval *)

\* No step of the message dedup touches anything else.
MsgOnly ==
  UNCHANGED <<inRoom, DATA, saveScheduled, saveTimers, dirty, engineVars, breakVars, checkinVars>>

\* messageCreate for message id m, up to the dispatch on the content:
\*   if (recentHandledMessages.has(message.id)) return;
\*   recentHandledMessages.add(message.id);
\* A delivery that gets past the guard is handled (commands, triggers).
MessageCreate(m) ==
  /\ handled[m] < MaxHandled
  /\ IF m \in recentHandledMessages
     THEN UNCHANGED <<recentHandledMessages, handledAt, handled>>
     ELSE /\ recentHandledMessages' = recentHandledMessages \cup {m}
          /\ handledAt' = [handledAt EXCEPT ![m] = msgClock]
          /\ handled' = [handled EXCEPT ![m] = @ + 1]
  /\ UNCHANGED <<msgClock, nextPrune>>
  /\ MsgOnly

\* setInterval(() => recentHandledMessages.clear(), 10 * 1000) fires when due.
PruneRecent ==
  /\ msgClock = nextPrune
  /\ recentHandledMessages' = {}
  /\ nextPrune' = nextPrune + PruneEvery
  /\ UNCHANGED <<msgClock, handledAt, handled>>
  /\ MsgOnly

\* Time passes, not beyond the moment the interval is due.
MsgTick ==
  /\ msgClock < MaxClock
  /\ msgClock < nextPrune
  /\ msgClock' = msgClock + 1
  /\ UNCHANGED <<recentHandledMessages, nextPrune, handledAt, handled>>
  /\ MsgOnly

MsgNext ==
  \/ \E m \in Messages : MessageCreate(m)
  \/ PruneRecent
  \/ MsgTick

MsgInit == Init /\ scenario.sessions = RaceSessions

MsgSpec == MsgInit /\ [][MsgNext]_vars

\* The dedup window of the claim: 10 s, in units of 5 s.
DedupWindow == 2

\* C26: a second delivery of a message id that arrives less than 10 s after
\* the id was handled is dropped (the id is not handled again), at whatever
\* point of the pruning cycle the first delivery arrived.
C26_TenSecondWindow ==
  [][\A m \in Messages :
       (handledAt[m] # NoTime /\ msgClock - handledAt[m] < DedupWindow)
       => handled'[m] = handled[m]]_vars

----------------------------------------------------------------------------
(* The ledger on disk: the debounced save, !checkin, the daily check-in and
   the shutdown handler, around the engine in one voice channel *)

\* One user, one timerObj, one interaction handler suspended at a time.
LedgerScenario == [users |-> {"A"}, sessions |-> CrowdSessions, confirms |-> RaceConfirms]

\* A step outside the engine and outside the voice channels.
LedgerOnly == UNCHANGED <<inRoom, engineVars, breakVars, msgVars>>

\* saveDataImmediate(): writeFileSync writes the whole of DATA, or throws and
\* the catch logs it.  d: DATA differs from the file before the call.
saveDataImmediate(d, ok) == IF ok THEN FALSE ELSE d

\* !checkin by u: ensureUser, then the streak and the date unless the user has
\* checked in today (the reply that follows is folded into the step).
Checkin(u) ==
  /\ u \in scenario.users
  /\ DATA' = ensureUser(DATA, u)
  /\ IF DATA[u].exists /\ lastCheckinDate[u] = today
     THEN UNCHANGED <<saveScheduled, saveTimers, dirty, lastCheckinDate, streak>>
     ELSE /\ streak' = [streak EXCEPT
                          ![u] = IF DATA[u].exists /\ lastCheckinDate[u] = today - 1
                                 THEN @ + 1 ELSE 1]
          /\ lastCheckinDate' = [lastCheckinDate EXCEPT ![u] = today]
          /\ saveData
  /\ UNCHANGED <<today, lastDailyAt, running, credited, flagged>>
  /\ UNCHANGED <<activeSessions, sessions, nSessions, recentFocusTriggers, confirms,
                 scenario, last>>
  /\ UNCHANGED <<inRoom, breakVars, msgVars>>

\* Midnight (UTC): the date string changes.
NewDay ==
  /\ today < MaxDay
  /\ today' = today + 1
  /\ UNCHANGED <<DATA, saveScheduled, saveTimers, dirty, lastCheckinDate, streak, lastDailyAt, running>>
  /\ LedgerOnly

\* doDailyCheckin(): once per date, DATA.lastDailyAt = today and
\* saveDataImmediate() (the posts that follow read no state of the bot).
doDailyCheckin ==
  /\ lastDailyAt # today
  /\ lastDailyAt' = today
  /\ \E ok \in BOOLEAN : dirty' = saveDataImmediate(TRUE, ok)
  /\ UNCHANGED <<DATA, saveScheduled, saveTimers, today, lastCheckinDate, streak, running>>
  /\ LedgerOnly

\* The 2 s timer of saveData fires: saveScheduled = false; saveDataImmediate().
SaveTimer ==
  /\ saveTimers > 0
  /\ saveTimers' = saveTimers - 1
  /\ saveScheduled' = FALSE
  /\ \E ok \in BOOLEAN : dirty' = saveDataImmediate(dirty, ok)
  /\ UNCHANGED <<DATA, today, lastCheckinDate, streak, lastDailyAt, running>>
  /\ LedgerOnly

\* process.on("SIGINT"): the deadline timers are cleared, saveDataImmediate(),
\* process.exit(): no timer fires and no handler runs any more.
Sigint ==
  /\ \E ok \in BOOLEAN : dirty' = saveDataImmediate(dirty, ok)
  /\ saveScheduled' = FALSE
  /\ saveTimers' = 0
  /\ running' = FALSE
  /\ UNCHANGED <<DATA, today, lastCheckinDate, streak, lastDailyAt>>
  /\ LedgerOnly

LedgerNext ==
  \/ \E u \in Users, r \in OneRoom \cup {Outside} : running /\ VoiceMove(u, r)
  \/ \E r \in OneRoom, chanOk \in BOOLEAN : running /\ TriggerDirect(r, chanOk)
  \/ \E r \in OneRoom : running /\ DedupExpire(r)
  \/ \E s \in SessionIds : running /\ SendPrompt(s)
  \/ \E s \in SessionIds : running /\ TimerFire(s)
  \/ \E s \in SessionIds : running /\ FetchMembers(s)
  \/ \E s \in SessionIds : running /\ LookupMember(s)
  \/ \E s \in SessionIds : running /\ MoveMember(s)
  \/ \E s \in SessionIds : running /\ EditPrompt(s)
  \/ \E r \in OneRoom, admin \in BOOLEAN : running /\ EndFocus(r, admin)
  \/ \E u \in Users, t \in SessionIds : running /\ Press(u, t)
  \/ \E c \in ConfirmRecords : running /\ Confirm(c)
  \/ \E u \in Users : running /\ Checkin(u)
  \/ running /\ NewDay
  \/ running /\ doDailyCheckin
  \/ running /\ SaveTimer
  \/ running /\ Sigint

LedgerInit ==
  /\ Ready
  /\ scenario = LedgerScenario

LedgerSpec == LedgerInit /\ [][LedgerNext]_vars

\* C27: no mutation of the ledger is lost: whenever DATA differs from what was
\* last written to data.json, the process is running with the debounced save
\* pending (saveScheduled, its timer live), and after the shutdown handler the
\* file holds DATA.
C27_NoMutationLost ==
  dirty => (running /\ saveScheduled)

\* C28: xp and infractions never decrease: the xp of a user changes only by
\* +10, in the step that records a confirmation of that user, and the
\* infractions only by +1, in the step in which a running pass flags the user
\* it has in hand.  (!checkin, the daily check-in and the saves change neither.)
C28_LedgerMonotone ==
  [][\A u \in Users :
       /\ DATA'[u].xp \in {DATA[u].xp, DATA[u].xp + 10}
       /\ DATA'[u].xp = DATA[u].xp + 10
            <=> \E c \in BagToSet(confirms) : c.user = u /\ Records(c)
       /\ DATA'[u].infractions \in {DATA[u].infractions, DATA[u].infractions + 1}
       /\ DATA'[u].infractions = DATA[u].infractions + 1
            <=> \E s \in SessionIds :
                  /\ PassRunning(s)
                  /\ sessions[s].cur = u
                  /\ flagged'[s][u] = flagged[s][u] + 1]_vars

\* A has confirmed once and checked in on two days in a row: 10 xp, a streak
\* of 2, no infraction, and the file holds it all.
C28_Witness ==
  /\ DATA["A"].xp = 10
  /\ DATA["A"].infractions = 0
  /\ streak["A"] = 2
  /\ \E s \in SessionIds : credited[s]["A"] = 1
  /\ ~dirty

\* C29: a user who has been credited in a session is never removed or flagged
\* by the pass of that session, in any interleaving, the confirmation accepted
\* while the pass is suspended at a gateway call, after it computed its set,
\* included.
C29_CreditedNeverEnforced ==
  [][\A s \in SessionIds, u \in Users :
       credited[s][u] > 0 =>
         /\ flagged'[s][u] = flagged[s][u]
         /\ ~(sessions[s].pc = "move" /\ sessions[s].cur = u /\ Removes(u))]_vars

\* C30: no confirmation is recorded on behalf of a session that is closed: an
\* interaction handler that resumes from the member fetch marks the user and
\* credits the ledger only if its session is still the one stored for the room.
C30_NoCreditForClosed ==
  [][\A c \in BagToSet(confirms) :
       Records(c) => activeSessions[sessions[c.sess].room] = c.sess]_vars

----------------------------------------------------------------------------
(* The bot's own messages as messageCreate events *)

\* A message the bot has just posted in the mapped text channel of room r, whose
\* messageCreate event is about to be delivered: the "Session ended." reply of
\* !endfocus, or the notice of a pass that is now at its final edit.
EchoPending(r) ==
  \/ last = "ended"
  \/ \E s \in SessionIds :
       sessions[s].room = r /\ sessions[s].pc = "edit" /\ sessions[s].notices > 0

\* messageCreate for that message: it has a new id, does not start with "!",
\* is in a mapped text channel, and no test of message.author is made, so it
\* reaches the auto-start on mapped text message.
OwnMessageCreate(r) ==
  /\ EchoPending(r)
  /\ TriggerGuarded(r, TRUE)

\* The signals of users end with the first session of the room: from then on
\* the only messages delivered are the bot's own.
EchoNext ==
  \/ \E u \in Users, r \in OneRoom \cup {Outside} : VoiceMove(u, r)
  \/ \E r \in OneRoom, chanOk \in BOOLEAN : Unstarted(r) /\ TriggerDirect(r, chanOk)
  \/ \E r \in OneRoom : OwnMessageCreate(r)
  \/ \E r \in OneRoom : DedupExpire(r)
  \/ \E s \in SessionIds : SendPrompt(s)
  \/ \E s \in SessionIds : SendFallback(s)
  \/ \E s \in SessionIds : TimerFire(s)
  \/ \E s \in SessionIds : FetchMembers(s)
  \/ \E s \in SessionIds : LookupMember(s)
  \/ \E s \in SessionIds : MoveMember(s)
  \/ \E s \in SessionIds : EditPrompt(s)
  \/ \E r \in OneRoom, admin \in BOOLEAN : EndFocus(r, admin)
  \/ \E m \in SessionIds : MessageDelete(m)
  \/ \E u \in Users, t \in SessionIds : Press(u, t)
  \/ \E c \in ConfirmRecords : Confirm(c)

EchoInit ==
  /\ Ready
  /\ scenario \in {sc \in Scenarios : sc.sessions = RaceSessions}

EchoSpec == EchoInit /\ [][EchoNext]_vars

\* C31: a message posted by the bot itself never opens a session: when the
\* signals of users and of the upstream bot stop with the first session of a
\* room, no further session is opened for that room.
C31_OwnMessagesOpenNothing ==
  [][\A r \in Rooms : StartsFor(r) => Unstarted(r)]_vars

\* C32: an open session has a prompt with the Present button: no session is
\* stored (and no deadline timer set) out of a prompt that could only be posted
\* without the button, so nobody is enforced without having had the button.
C32_OpenHasButton ==
  [][\A s \in SessionIds :
       /\ sessions[s].pc = "send2" => ~TimerPending(s)'
       /\ (~TimerPending(s) /\ TimerPending(s)') => sessions'[s].prompt = "button"]_vars

\* C33: only a trigger that opened a session suppresses later triggers: a
\* trigger for a room r that has occupants and no stored session is dropped by
\* the dedup guard only if a session was started for r before (a trigger
\* turned down for an empty room or for want of a notify channel leaves no
\* entry behind that drops the next one).
C33_OnlyOpeningSuppresses ==
  [][\A r \in Rooms :
       (/\ last' = "dedup" /\ r \in recentFocusTriggers
        /\ membersInVC(r) # {} /\ ~SessionExists(r))
       => ~Unstarted(r)]_vars

\* C34: in every state, for every session, waiting and present are disjoint
\* and waiting together with the present users of the snapshot is the
\* snapshot: a confirmation moves the user from waiting to present in one step.
C34_WaitingPresentPartition ==
  \A s \in SessionIds :
    /\ sessions[s].waiting \cap sessions[s].present = {}
    /\ sessions[s].waiting \cup (sessions[s].present \cap sessions[s].expected)
         = sessions[s].expected

\* A and B were in the snapshot, A has confirmed and B has not.
C34_Witness ==
  \E s \in SessionIds :
    /\ sessions[s].pc = "open"
    /\ sessions[s].expected = {"A", "B"}
    /\ sessions[s].waiting = {"B"}
    /\ sessions[s].present = {"A"}
    /\ credited[s]["A"] = 1

\* The interaction handler c resumes in this step.
Resumes(c) ==
  /\ c \in BagToSet(confirms)
  /\ confirms' = confirms (-) SetToBag({c})

\* C35: a confirmation by a user who is in the room and has not confirmed yet
\* is accepted whether or not the user is in the snapshot (unless the member
\* fetch itself fails, which answers nothing); an accepted confirmation
\* credits exactly 10 xp, puts the user in present, and adds nobody to waiting
\* or to the snapshot, the sets the pass takes its users from.
C35_LateJoinerCredited ==
  [][\A c \in BagToSet(confirms) :
       /\ (/\ Resumes(c)
           /\ inRoom[c.user] = sessions[c.sess].room
           /\ c.user \notin sessions[c.sess].present)
          => Records(c) \/ (last' = "none" /\ Untouched)
       /\ Records(c) =>
            /\ DATA'[c.user].xp = DATA[c.user].xp + 10
            /\ Kept(c.sess)' =>
                 /\ c.user \in sessions'[c.sess].present
                 /\ sessions'[c.sess].waiting = sessions[c.sess].waiting \ {c.user}
                 /\ sessions'[c.sess].expected = sessions[c.sess].expected]_vars

\* B joined after the snapshot {A}, confirmed and has 10 xp; the pass runs
\* with A alone in its set while B is in the room.
C35_Witness ==
  \E s \in SessionIds :
    /\ sessions[s].pc = "lookup"
    /\ sessions[s].expected = {"A"}
    /\ sessions[s].present = {"B"}
    /\ Selected(sessions[s]) = {"A"}
    /\ inRoom["B"] = sessions[s].room
    /\ credited[s]["B"] = 1
    /\ DATA["B"].xp = 10


\* C36: whenever a live session closes while its prompt still carries the
\* button, an edit of the prompt was attempted on the way (the one folded into
\* !endfocus, or the one the callback waits for at pc "edit"), and a session
\* waiting for that edit is already out of the table.
C36_CloseAttemptsEdit ==
  [][\A s \in SessionIds :
       /\ (Live(s) /\ sessions'[s].pc = "closed" /\ sessions'[s].prompt = "button")
            => last' = "ended"
       /\ sessions[s].pc = "edit" => \A r \in Rooms : activeSessions[r] # s]_vars


\* C37: an !endfocus by a member without the admin permissions, or for a room
\* with no live session, is answered with the matching error reply and changes
\* no session, no table entry, no timer and no ledger entry.
C37_RefusedEndFocusChangesNothing ==
  [][\A r \in Rooms, admin \in BOOLEAN :
       (/\ EndFocus(r, admin)
        /\ ~admin \/ ~\E s \in SessionIds : Live(s) /\ sessions[s].room = r)
         => /\ last' = IF admin THEN "nosession" ELSE "denied"
            /\ UNCHANGED <<activeSessions, sessions, confirms, recentFocusTriggers>>
            /\ LedgerUnchanged]_vars

\* A member without the permissions named a room whose session is open: the
\* command was turned down and the session is still stored, its timer pending.
C37_Witness ==
  /\ last = "denied"
  /\ \E s \in SessionIds :
       /\ TimerPending(s)
       /\ activeSessions[sessions[s].room] = s
       /\ sessions[s].prompt = "button"


\* C38: a deadline timer is armed, and a session stored, only by a start that
\* had a notify channel and whose prompt post (with the button or the fallback)
\* went through; a trigger turned down for its channel, and a start whose two
\* posts failed, store nothing, arm nothing and leave the ledger alone.
C38_SessionNeedsChannelAndPost ==
  [][/\ \A s \in SessionIds :
          /\ (~TimerPending(s) /\ TimerPending(s)')
               => /\ sessions[s].pc \in StartingPcs
                  /\ sessions[s].notifyChannelId
                  /\ sessions'[s].prompt \in {"button", "plain"}
                  /\ activeSessions'[sessions[s].room] = s
          /\ (sessions[s].pc = "send2" /\ sessions'[s].pc # "send2" /\ ~TimerPending(s)')
               => /\ sessions'[s] = Closed(sessions[s])
                  /\ UNCHANGED activeSessions
                  /\ LedgerUnchanged
     /\ \A r \in Rooms :
          TriggerDirect(r, FALSE) => /\ UNCHANGED <<sessions, activeSessions, nSessions>>
                                     /\ LedgerUnchanged]_vars

\* The room is occupied, the one start made for it has given up after both
\* posts failed: no table entry, no timer, no prompt, an untouched ledger.
C38_Witness ==
  /\ nSessions = 1
  /\ sessions[1].pc = "closed"
  /\ sessions[1].prompt = "none"
  /\ membersInVC(sessions[1].room) # {}
  /\ sessions[1].room \in recentFocusTriggers
  /\ \A r \in Rooms : activeSessions[r] = NoSess
  /\ \A u \in Users : DATA[u] = NoUser
  /\ ~dirty /\ ~saveScheduled


\* A step that changes a user's entry of the ledger.
LedgerMutation ==
  DATA' # DATA \/ streak' # streak \/ lastCheckinDate' # lastCheckinDate

\* C39: ledger writes are coalesced: the step that mutates a user's entry does
\* not write (the change is unwritten after it, behind exactly one pending 2 s
\* timer), there is never more than one such timer, a mutation made while one
\* is pending arms no other, and the firing of the timer, with its one write,
\* leaves no timer behind.
C39_WritesCoalesced ==
  [][/\ saveTimers <= 1
     /\ running => (saveScheduled <=> saveTimers = 1)
     /\ LedgerMutation => /\ dirty'
                          /\ saveScheduled'
                          /\ saveTimers' = 1
                          /\ saveScheduled => saveTimers' = saveTimers
     /\ (running' /\ saveTimers' < saveTimers)
          => /\ saveTimers' = 0
             /\ ~saveScheduled'
             /\ dirty' \in {FALSE, dirty}
             /\ UNCHANGED DATA]_vars

\* A burst behind one timer: A has checked in, was credited for a
\* confirmation and was flagged by a pass, nothing of it is written yet and
\* one timer is pending.
C39_Witness ==
  /\ running
  /\ saveTimers = 1
  /\ saveScheduled
  /\ dirty
  /\ streak["A"] = 1
  /\ DATA["A"].xp = 10
  /\ DATA["A"].infractions = 1

============================================================================
